---------------------------- MODULE Spec2Model ----------------------------
(***************************************************************************)
(* Model of src/main.py: a simpy-driven simulation of one signalised       *)
(* four-way intersection (TrafficLight, the per-lane vehicle generators,   *)
(* TrafficSimulation.update and TrafficSimulation.update_stats).           *)
(*                                                                         *)
(* Units.  Lengths are exact multiples of 1/30000 mile, so that every      *)
(* length the program uses is an integer: 0.5 -> 15000, 0.04 -> 1200,      *)
(* 0.05 -> 1500, 0.02 -> 600, 0.15 -> 4500, AVERAGE_SPEED/3600 -> 500.     *)
(* Simulation time (env.now) is in eighths of a second (TimeUnit to the    *)
(* second), so that the intervals random.expovariate returns, which are    *)
(* mostly shorter than a second, are integers.  A value of random.random() *)
(* is given in hundredths (0..99).  The program computes in binary         *)
(* floating point; the model computes exactly.                             *)
(***************************************************************************)
EXTENDS Integers, Sequences, FiniteSets, TLC

(***************************************************************************)
(* Program constants (src/main.py:8-22 and the literals of the classes).   *)
(***************************************************************************)
\* units of simulation time to the second
TimeUnit == 8
NUM_LANES == 1
\* 30 s
GREEN_DURATION == 240
\* 2 s
YELLOW_DURATION == 16
OBSERVATION_ZONE_LENGTH == 15000
AVERAGE_SPEED == 60
TRAFFIC_VOLUME == 25
CAR_LENGTH == 1200
TURN_PROBABILITY == 70
\* 0.05, the literal of MINIMUM_FOLLOW_DISTANCE and of min_follow
FOLLOW_MARGIN == 1500
MINIMUM_FOLLOW_DISTANCE == FOLLOW_MARGIN + (CAR_LENGTH \div 2)
\* random.random() < 0.95 gives a vehicle of normal length
NORMAL_LENGTH_PROBABILITY == 95
\* update_stats: INTERSECTION_ZONE = 0.15
INTERSECTION_ZONE == 4500
\* update_waiting_status: MOVEMENT_THRESHOLD = 0.00001 mile = 0.006 units;
\* between integers, |d| > 0.006 is |d| > 0
MOVEMENT_THRESHOLD == 0
\* deque(maxlen=50)
WAIT_TIMES_MAXLEN == 50
\* the value of wait_start when no wait is pending (Python's None)
None == -1

(***************************************************************************)
(* Bounds of the model.                                                    *)
(***************************************************************************)
\* calls of update() (animation frames) explored
MaxFrames == 70
\* random draws of one run that may differ from the nominal draw
MaxDeviations == 1
\* frames (from the first) in which a draw may differ from the nominal draw
DeviationFrames == 6

Directions == <<"north", "south", "east", "west">>
DirectionSet == {"north", "south", "east", "west"}
Lanes == 0 .. (NUM_LANES - 1)

Abs(n) == IF n < 0 THEN -n ELSE n
Max(a, b) == IF a >= b THEN a ELSE b

VARIABLES
    vehicles,      \* self.vehicles: direction -> lane index -> sequence of vehicles
    stats,         \* self.stats: direction -> TrafficStats
    states,        \* traffic_light.states: group -> colour
    lightPc,       \* the yield at which TrafficLight.run is suspended (0: not started)
    queue,         \* env's event queue: <<time, process>>, in (time, priority, eid) order
    now,           \* env.now
    id_counter,    \* generate_vehicles' local id_counter, per (direction, lane)
    dirIdx,        \* position of update()'s loop over the directions (1..4)
    frame,         \* number of completed calls of update()
    deviations,    \* non-nominal random draws made so far
    created,       \* history: every (direction, lane, id) a generator has created
    removedCount   \* history: per direction, vehicles removed from its lanes

vars == <<vehicles, stats, states, lightPc, queue, now, id_counter, dirIdx,
          frame, deviations, created, removedCount>>


(***************************************************************************)
(* Random inputs.  random.random() and random.expovariate() are inputs of  *)
(* the program; the model draws them from these sets.  Each call site has  *)
(* a nominal value; a run makes at most MaxDeviations other draws.         *)
(***************************************************************************)
\* The draws of line 283 are chosen so that every step is a multiple of 13
\* units (400 + 2r for a draw of r hundredths); no distance the program
\* compares with a threshold is then equal to the threshold, and the exact
\* comparison of the model is the one the program makes in floating point.
Draws == [move   |-> {8, 60},     \* line 283: 0.832x and 1.04x of base_movement
          length |-> {0, 95},     \* line 35:  normal length, double length
          turn   |-> {0, 75},     \* line 63:  turning right, going straight
          delay  |-> {TimeUnit, 2 * TimeUnit}]   \* line 252: 1 s and 2 s
Nominal == [move |-> 60, length |-> 0, turn |-> 75, delay |-> TimeUnit]

Cost(kind, r) == IF r = Nominal[kind] THEN 0 ELSE 1

\* The sequences of n movement draws of which at most k are not nominal.
RECURSIVE MoveDrawSeqs(_, _)
MoveDrawSeqs(n, k) ==
    IF n = 0 THEN {<< >>}
    ELSE {Append(s, Nominal.move) : s \in MoveDrawSeqs(n - 1, k)}
         \cup (IF k = 0 THEN {}
               ELSE {Append(s, r) : s \in MoveDrawSeqs(n - 1, k - 1),
                                    r \in Draws.move \ {Nominal.move}})

RECURSIVE SumCost(_, _)
SumCost(kind, s) ==
    IF s = << >> THEN 0 ELSE Cost(kind, Head(s)) + SumCost(kind, Tail(s))

(***************************************************************************)
(* Vehicle.__init__                                                        *)
(***************************************************************************)
lane_offset(lane) == 600 + (lane * 1200)

InitialPosition(direction) ==
    IF direction \in {"north", "east"} THEN OBSERVATION_ZONE_LENGTH
    ELSE -OBSERVATION_ZONE_LENGTH

\* self.x of a north/south vehicle, self.y of an east/west vehicle
InitialLateral(direction, lane) ==
    IF direction \in {"south", "east"} THEN lane_offset(lane)
    ELSE -lane_offset(lane)

VehicleLength(rLength) ==
    IF rLength < NORMAL_LENGTH_PROBABILITY THEN CAR_LENGTH ELSE CAR_LENGTH * 2

TurningRight(lane, rTurn) == lane = NUM_LANES - 1 /\ rTurn < TURN_PROBABILITY

Vehicle(id, direction, lane, rLength, rTurn) ==
    [id                   |-> id,
     length               |-> VehicleLength(rLength),
     position             |-> InitialPosition(direction),
     lateral              |-> InitialLateral(direction, lane),
     last_position        |-> InitialPosition(direction),
     wait_start           |-> None,
     is_waiting           |-> FALSE,
     crossed_intersection |-> FALSE,
     turning_right        |-> TurningRight(lane, rTurn),
     \* history, not program state: when the light gate first held the
     \* vehicle, and when it first moved again
     held_since           |-> None,
     resumed_at           |-> None]

(***************************************************************************)
(* TrafficStats                                                            *)
(***************************************************************************)
TrafficStats ==
    [completed_count |-> 0,
     wait_times      |-> << >>,
     waiting_count   |-> 0,
     current_waiting |-> {}]     \* {<<vehicle id, time>>}: a dict

\* a window that drops the newest entry, not the oldest, when it is full
DequeAppend_EvictNewest(q, x) ==
    IF Len(q) >= WAIT_TIMES_MAXLEN THEN Append(SubSeq(q, 1, Len(q) - 1), x)
    ELSE Append(q, x)

\* deque(maxlen=50).append
DequeAppend(q, x) ==
    IF Len(q) >= WAIT_TIMES_MAXLEN THEN Append(Tail(q), x) ELSE Append(q, x)

start_waiting(st, vehicle_id, time) ==
    IF \E e \in st.current_waiting : e[1] = vehicle_id THEN st
    ELSE [st EXCEPT !.current_waiting = @ \cup {<<vehicle_id, time>>}]

\* stop_waiting that does not require the vehicle to be registered and
\* appends its entry twice
stop_waiting_Twice(st, vehicle_id, current_time) ==
    LET registered == {e \in st.current_waiting : e[1] = vehicle_id}
        waited == IF registered = {} THEN 0
                  ELSE current_time - (CHOOSE e \in registered : TRUE)[2]
    IN  [st EXCEPT !.wait_times = DequeAppend(DequeAppend(@, waited), waited),
                   !.current_waiting = @ \ registered]

stop_waiting(st, vehicle_id, current_time) ==
    IF \E e \in st.current_waiting : e[1] = vehicle_id
    THEN LET e == CHOOSE e \in st.current_waiting : e[1] = vehicle_id
         IN  [st EXCEPT !.wait_times = DequeAppend(@, current_time - e[2]),
                        !.current_waiting = @ \ {e}]
    ELSE st

(***************************************************************************)
(* simpy's event queue.  An entry is <<time, process>>; entries are kept   *)
(* in the order env.step() pops them: by time, then by insertion (eid).    *)
(* The Initialize events of __init__ are urgent, but are all scheduled at  *)
(* time 0 before any Timeout exists, so insertion order is their order.    *)
(***************************************************************************)
LightProcess == <<"light">>
Generator(direction, lane) == <<"generator", direction, lane>>

RECURSIVE Schedule(_, _, _)
Schedule(q, time, process) ==
    IF q = << >> THEN << <<time, process>> >>
    ELSE IF Head(q)[1] <= time
         THEN << Head(q) >> \o Schedule(Tail(q), time, process)
         ELSE << <<time, process>> >> \o q

RECURSIVE InitialQueue(_, _)
\* env.process(...) of TrafficLight.__init__, then of each (direction, lane)
InitialQueue(i, lane) ==
    IF i = 0 THEN << <<0, LightProcess>> >> \o InitialQueue(1, 0)
    ELSE IF i > Len(Directions) THEN << >>
    ELSE IF lane > NUM_LANES - 1 THEN InitialQueue(i + 1, 0)
    ELSE << <<0, Generator(Directions[i], lane)>> >> \o InitialQueue(i, lane + 1)

(***************************************************************************)
(* TrafficLight.run, from the yield it is suspended at to the next one.    *)
(* S is the simulation state: a record of the model's variables.           *)
(***************************************************************************)
\* TrafficLight.run without the assignment self.states['EW'] = 'red'
LightAfterStage_NoRed(st, pc) ==
    CASE pc \in {0, 4} -> [NS |-> "red", EW |-> "green"]
      [] pc = 1        -> [st EXCEPT !.EW = "yellow"]
      [] pc = 2        -> [st EXCEPT !.NS = "green"]
      [] pc = 3        -> [st EXCEPT !.NS = "yellow"]

LightAfterStage(st, pc) ==
    CASE pc \in {0, 4} -> [NS |-> "red", EW |-> "green"]
      [] pc = 1        -> [st EXCEPT !.EW = "yellow"]
      [] pc = 2        -> [NS |-> "green", EW |-> "red"]
      [] pc = 3        -> [st EXCEPT !.NS = "yellow"]

\* TrafficLight.run with every yellow phase one second longer
LightTimeout_LongYellow(pc) ==
    IF pc \in {0, 2, 4} THEN GREEN_DURATION ELSE YELLOW_DURATION + TimeUnit

LightTimeout(pc) == IF pc \in {0, 2, 4} THEN GREEN_DURATION ELSE YELLOW_DURATION

NextLightPc(pc) == IF pc = 4 THEN 1 ELSE pc + 1

run(S) ==
    [S EXCEPT !.states  = LightAfterStage(S.states, S.lightPc),
              !.queue   = Schedule(S.queue, S.now + LightTimeout(S.lightPc), LightProcess),
              !.lightPc = NextLightPc(S.lightPc)]

(***************************************************************************)
(* TrafficSimulation.generate_vehicles, one iteration of its loop.         *)
(***************************************************************************)
RECURSIVE SumLens(_, _)
SumLens(f, S_) ==
    IF S_ = {} THEN 0
    ELSE LET x == CHOOSE x \in S_ : TRUE IN Len(f[x]) + SumLens(f, S_ \ {x})

RECURSIVE NumVehiclesIn(_, _)
NumVehiclesIn(vs, ds) ==
    IF ds = {} THEN 0
    ELSE LET d == CHOOSE d \in ds : TRUE
         IN  SumLens(vs[d], Lanes) + NumVehiclesIn(vs, ds \ {d})

num_vehicles(vs) == NumVehiclesIn(vs, DirectionSet)

\* generate_vehicles without the volume test of line 237
WithinVolume_NoCap(vs) == TRUE

\* line 237: num_vehicles <= TRAFFIC_VOLUME * 1.3
WithinVolume(vs) == 10 * num_vehicles(vs) <= 13 * TRAFFIC_VOLUME

\* lines 239-246: the lane is empty, or its last vehicle has left room
HasSpace(lane_vehicles) ==
    IF lane_vehicles = << >> THEN TRUE
    ELSE Abs(Abs(lane_vehicles[Len(lane_vehicles)].position) - OBSERVATION_ZONE_LENGTH)
           > MINIMUM_FOLLOW_DISTANCE

WillSpawn(S, direction, lane) ==
    WithinVolume(S.vehicles) /\ HasSpace(S.vehicles[direction][lane])

\* lines 240-242 / 247-249
Spawn(S, direction, lane, rLength, rTurn) ==
    LET id == S.id_counter[direction][lane]
    IN  [S EXCEPT !.vehicles[direction][lane] =
                      Append(@, Vehicle(id, direction, lane, rLength, rTurn)),
                  !.id_counter[direction][lane] = id + 1,
                  !.created = @ \cup {<<direction, lane, id>>},
                  !.deviations = @ + Cost("length", rLength) + Cost("turn", rTurn)]

\* line 252
GeneratorTimeout(S, direction, lane, delay) ==
    [S EXCEPT !.queue = Schedule(S.queue, S.now + delay, Generator(direction, lane)),
              !.deviations = @ + Cost("delay", delay)]

(***************************************************************************)
(* env.step(): pop the next event, set the clock, resume its process.      *)
(***************************************************************************)
Pop(S) == [S EXCEPT !.now = Head(S.queue)[1], !.queue = Tail(S.queue)]


(***************************************************************************)
(* TrafficSimulation.update: the body of the loop over a lane's vehicles   *)
(* (lines 278-391), for the vehicle at index i of the copy vehicles[:].    *)
(* `lane` is the live list, from which this pass may already have removed  *)
(* vehicles; r is the vehicle's draw of random.random() at line 283.       *)
(***************************************************************************)
LightGroup(direction) == IF direction \in {"north", "south"} THEN "NS" ELSE "EW"

\* line 272 with yellow treated as green
can_move_OnYellow(light_state) == light_state # "red"

\* line 272
can_move(light_state) == light_state \notin {"red", "yellow"}

\* line 256
base_movement == (AVERAGE_SPEED * 30000) \div 3600

\* line 283: base_movement * (0.8 + 0.4 * random.random())
movement_per_step(r) == (base_movement * (8000 + (40 * r))) \div 10000

\* lines 286-290
allow_movement(canMove, vehicle, lane_idx) ==
    canMove \/ (vehicle.turning_right /\ lane_idx = NUM_LANES - 1)

\* 0.1 * (NUM_LANES / 2), the crossing threshold of line 307
CrossingThreshold == (3000 * NUM_LANES) \div 2

\* lines 336 and 379
stop_position == CrossingThreshold + CAR_LENGTH

\* lines 293-295
StartWaitTracking(v, allow, time) ==
    IF ~allow /\ ~v.crossed_intersection
       /\ Abs(v.position) < MINIMUM_FOLLOW_DISTANCE /\ v.wait_start = None
    THEN [v EXCEPT !.wait_start = time]
    ELSE v

\* line 298
IsCompleted(v) ==
    Abs(v.position) >= OBSERVATION_ZONE_LENGTH /\ v.crossed_intersection

\* lines 299-302
Complete(st, v, time) ==
    [st EXCEPT !.wait_times = IF v.wait_start # None
                              THEN DequeAppend(@, time - v.wait_start) ELSE @,
               !.completed_count = @ + 1]

\* line 307
AtCrossing(v) ==
    Abs(v.position) <= CrossingThreshold /\ ~v.crossed_intersection

\* lines 312-313
Cross(v) == [v EXCEPT !.crossed_intersection = TRUE, !.wait_start = None]

\* line 322
min_follow(vehicle, vehicle_ahead) ==
    FOLLOW_MARGIN + (Max(vehicle.length, vehicle_ahead.length) \div 2)

\* lines 323-327
within_following_distance(vehicle, vehicle_ahead) ==
    \/ Abs(vehicle.position - vehicle_ahead.position) >= min_follow(vehicle, vehicle_ahead)
    \/ (vehicle_ahead.turning_right /\ vehicle_ahead.crossed_intersection)

\* lines 318-333 without the test i > 0 of line 318: the first vehicle of
\* the copy is compared with vehicles[-1], the last vehicle of the lane
BlockedByVehicleAhead_NoLead(v, i, lane) ==
    \/ i - 1 > Len(lane)
    \/ ~within_following_distance(v, lane[IF i > 1 THEN i - 1 ELSE Len(lane)])

\* lines 318-333: i is the 1-based index in the copy, so the code's i is
\* i - 1 and vehicles[i-1] is the element i - 1 of the live list; an index
\* past its end raises IndexError, which the code answers with `continue`.
\* lane is the live list as the code reads it at line 320: its elements are
\* the vehicle objects, the one being processed included.
BlockedByVehicleAhead(v, i, lane) ==
    /\ i > 1
    /\ \/ i - 1 > Len(lane)
       \/ ~within_following_distance(v, lane[i - 1])

\* a stop gate that holds a vehicle only at the crossing itself
StoppedAtLight_AtCrossingOnly(v, allow) ==
    ~v.crossed_intersection /\ Abs(v.position) < CrossingThreshold /\ ~allow

\* lines 337-339
StoppedAtLight(v, allow) ==
    ~v.crossed_intersection /\ Abs(v.position) < stop_position /\ ~allow

\* lines 342-373 with the sign of the step of a straight vehicle reversed
Move_Away(v, direction, lane_idx, step) ==
    IF v.turning_right /\ v.crossed_intersection
    THEN [v EXCEPT !.lateral  = IF direction \in {"north", "west"}
                                THEN @ - step ELSE @ + step,
                   !.position = IF direction \in {"north", "east"}
                                THEN lane_offset(lane_idx)
                                ELSE -lane_offset(lane_idx)]
    ELSE [v EXCEPT !.position = IF direction \in {"north", "east"}
                                THEN @ + step ELSE @ - step]

\* lines 342-373 without the removal
Move(v, direction, lane_idx, step) ==
    IF v.turning_right /\ v.crossed_intersection
    THEN [v EXCEPT !.lateral  = IF direction \in {"north", "west"}
                                THEN @ - step ELSE @ + step,
                   !.position = IF direction \in {"north", "east"}
                                THEN lane_offset(lane_idx)
                                ELSE -lane_offset(lane_idx)]
    ELSE [v EXCEPT !.position = IF direction \in {"north", "east"}
                                THEN @ - step ELSE @ + step]

\* lines 346, 354, 362, 370
TurnCompleted(v) ==
    v.turning_right /\ v.crossed_intersection
    /\ Abs(v.lateral) >= OBSERVATION_ZONE_LENGTH

\* Vehicle.update_waiting_status(vehicle.position), lines 68-82
update_waiting_status(v) ==
    LET has_moved == Abs(v.position - v.last_position) > MOVEMENT_THRESHOLD
    IN  [v EXCEPT !.is_waiting = ~has_moved, !.last_position = v.position]

\* the test of line 380 without its condition on crossed_intersection
StartsWait_AfterCrossing(v) ==
    v.is_waiting /\ Abs(v.position) <= stop_position

\* lines 380-391: the vehicle and its direction's stats after the wait
\* bookkeeping
StartsWait(v) ==
    v.is_waiting /\ ~v.crossed_intersection /\ Abs(v.position) <= stop_position

BookkeepVehicle(v, time) ==
    IF StartsWait(v)
    THEN IF v.wait_start = None THEN [v EXCEPT !.wait_start = time] ELSE v
    ELSE [v EXCEPT !.wait_start = None]

BookkeepStats(st, v, time) ==
    IF StartsWait(v)
    THEN IF v.wait_start = None THEN start_waiting(st, v.id, time) ELSE st
    ELSE IF v.wait_start # None THEN stop_waiting(st, v.id, time) ELSE st

\* history: the light gate (line 315 or line 339) holds the vehicle
Hold(v, time) ==
    IF v.held_since = None THEN [v EXCEPT !.held_since = time] ELSE v

\* history: the vehicle moves again after having been held
Resume(v, time) ==
    IF v.held_since # None /\ v.resumed_at = None
    THEN [v EXCEPT !.resumed_at = time] ELSE v

\* The live list with the vehicle being processed as it is by now: the
\* list holds the vehicle object itself (ids are unique within a lane), so
\* a read of the list at line 320 sees what lines 295 and 312-313 have
\* already written to it.
Live(lane, v) ==
    [j \in 1 .. Len(lane) |-> IF lane[j].id = v.id THEN v ELSE lane[j]]

\* What one iteration does to its vehicle and to the direction's stats:
\* [v: the vehicle afterwards, remove: whether vehicles.remove(vehicle) ran,
\*  st: the stats afterwards].
ProcessVehicle(v0, i, lane, st, direction, lane_idx, canMove, r, time) ==
    LET allow == allow_movement(canMove, v0, lane_idx)
        v1    == StartWaitTracking(v0, allow, time)
    IN  IF IsCompleted(v1)
        THEN [v |-> v1, remove |-> TRUE, st |-> Complete(st, v1, time)]
        ELSE IF AtCrossing(v1) /\ ~allow
        THEN [v |-> Hold(v1, time), remove |-> FALSE, st |-> st]
        ELSE
        LET v2 == IF AtCrossing(v1) THEN Cross(v1) ELSE v1
        IN  IF BlockedByVehicleAhead(v2, i, Live(lane, v2))
            THEN [v |-> v2, remove |-> FALSE, st |-> st]
            ELSE IF StoppedAtLight(v2, allow)
            THEN [v |-> Hold(v2, time), remove |-> FALSE, st |-> st]
            ELSE
            LET v3 == Resume(Move(v2, direction, lane_idx, movement_per_step(r)), time)
                v4 == update_waiting_status(v3)
            IN  [v      |-> BookkeepVehicle(v4, time),
                 remove |-> TurnCompleted(v3),
                 st     |-> BookkeepStats(st, v4, time)]

\* The list after vehicles.remove(...) of its element k.
RemoveAt(lane, k) == SubSeq(lane, 1, k - 1) \o SubSeq(lane, k + 1, Len(lane))

\* The loop of line 278 from index i of the copy on.  A is
\* [lane: the live list, st: the direction's stats, removed: how many
\*  vehicles this pass has removed from the lane so far]; the vehicle at
\* index i of the copy is at index i - A.removed of the live list.
RECURSIVE ProcessLane(_, _, _, _, _, _, _, _)
ProcessLane(A, i, n, direction, lane_idx, canMove, draws, time) ==
    IF i > n THEN A
    ELSE LET k == i - A.removed
             R == ProcessVehicle(A.lane[k], i, A.lane, A.st, direction,
                                 lane_idx, canMove, draws[i], time)
             B == [lane    |-> IF R.remove THEN RemoveAt(A.lane, k)
                               ELSE [A.lane EXCEPT ![k] = R.v],
                   st      |-> R.st,
                   removed |-> A.removed + (IF R.remove THEN 1 ELSE 0)]
         \* the test is always true: it has B evaluated here, before the next
         \* iteration, which keeps the evaluation shallow
         IN  IF B.removed >= 0
             THEN ProcessLane(B, i + 1, n, direction, lane_idx, canMove, draws, time)
             ELSE A

\* The draws of the vehicles of lane lane_idx, from the draws of the whole
\* direction (one per vehicle, lane after lane).
RECURSIVE LaneOffset(_, _)
LaneOffset(lanes, lane_idx) ==
    IF lane_idx = 0 THEN 0
    ELSE Len(lanes[lane_idx - 1]) + LaneOffset(lanes, lane_idx - 1)

\* The loop of line 274 from lane lane_idx on, in simulation state S.
RECURSIVE ProcessLanes(_, _, _, _, _)
ProcessLanes(S, direction, lane_idx, canMove, draws) ==
    IF lane_idx > NUM_LANES - 1 THEN S
    ELSE LET lane == S.vehicles[direction][lane_idx]
             off  == LaneOffset(S.vehicles[direction], lane_idx)
             A    == ProcessLane([lane |-> lane, st |-> S.stats[direction],
                                  removed |-> 0],
                                 1, Len(lane), direction, lane_idx, canMove,
                                 [j \in 1 .. Len(lane) |-> draws[off + j]], S.now)
         IN  ProcessLanes([S EXCEPT !.vehicles[direction][lane_idx] = A.lane,
                                    !.stats[direction] = A.st,
                                    !.removedCount[direction] = @ + A.removed],
                          direction, lane_idx + 1, canMove, draws)

\* Lines 270-391 for one direction.  The light is read once (line 271),
\* before the lanes are processed; the draws of the other lanes' vehicles
\* are made in their own iterations, so their order does not matter.
MoveDirection(S, direction, draws) ==
    ProcessLanes(S, direction, 0,
                 can_move(S.states[LightGroup(direction)]), draws)

(***************************************************************************)
(* TrafficSimulation.update_stats                                          *)
(***************************************************************************)
\* lines 203-211 and 215-219
ShouldWait(v, lane_idx, is_red, last_waiting_pos) ==
    LET is_in_zone      == Abs(v.position) <= INTERSECTION_ZONE
        is_right_turner == v.turning_right /\ lane_idx = NUM_LANES - 1
    IN  IF is_in_zone /\ is_red /\ ~is_right_turner /\ ~v.crossed_intersection
        THEN TRUE
        ELSE /\ last_waiting_pos # None
             /\ Abs(Abs(v.position) - Abs(last_waiting_pos))
                  <= MINIMUM_FOLLOW_DISTANCE + (Max(v.length, CAR_LENGTH) \div 2)

\* the loop of line 198 from element k on: the vehicles counted
RECURSIVE WaitingInLane(_, _, _, _, _)
WaitingInLane(lane, k, lane_idx, is_red, last_waiting_pos) ==
    IF k > Len(lane) THEN 0
    ELSE IF ShouldWait(lane[k], lane_idx, is_red, last_waiting_pos)
         THEN 1 + WaitingInLane(lane, k + 1, lane_idx, is_red, Abs(lane[k].position))
         ELSE WaitingInLane(lane, k + 1, lane_idx, is_red, last_waiting_pos)

RECURSIVE WaitingInLanes(_, _, _)
WaitingInLanes(lanes, lane_idx, is_red) ==
    IF lane_idx > NUM_LANES - 1 THEN 0
    ELSE WaitingInLane(lanes[lane_idx], 1, lane_idx, is_red, None)
         + WaitingInLanes(lanes, lane_idx + 1, is_red)

WaitingCount(vs, lightStates, direction) ==
    WaitingInLanes(vs[direction], 0, lightStates[LightGroup(direction)] = "red")

\* update_stats that starts every direction's statistics afresh
update_stats_Fresh(S) ==
    [S EXCEPT !.stats = [d \in DirectionSet |->
        [TrafficStats EXCEPT !.waiting_count = WaitingCount(S.vehicles, S.states, d)]]]

update_stats(S) ==
    [S EXCEPT !.stats = [d \in DirectionSet |->
        [S.stats[d] EXCEPT !.waiting_count = WaitingCount(S.vehicles, S.states, d)]]]

(***************************************************************************)
(* The state machine.  One step is one iteration of update()'s loop over   *)
(* the directions (lines 269-394): the vehicles of the direction move,     *)
(* update_stats() runs and env.step() processes one event.  The call of    *)
(* update() ends with the iteration of the last direction.                 *)
(***************************************************************************)
Sim == [vehicles |-> vehicles, stats |-> stats, states |-> states,
        lightPc |-> lightPc, queue |-> queue, now |-> now,
        id_counter |-> id_counter, deviations |-> deviations,
        created |-> created, removedCount |-> removedCount]

Init ==
    /\ vehicles = [d \in DirectionSet |-> [l \in Lanes |-> << >>]]
    /\ stats = [d \in DirectionSet |-> TrafficStats]
    /\ states = [NS |-> "red", EW |-> "green"]
    /\ lightPc = 0
    /\ queue = InitialQueue(0, 0)
    /\ now = 0
    /\ id_counter = [d \in DirectionSet |-> [l \in Lanes |-> 0]]
    /\ dirIdx = 1
    /\ frame = 0
    /\ deviations = 0
    /\ created = {}
    /\ removedCount = [d \in DirectionSet |-> 0]

Commit(S) ==
    /\ vehicles' = S.vehicles
    /\ stats' = S.stats
    /\ states' = S.states
    /\ lightPc' = S.lightPc
    /\ queue' = S.queue
    /\ now' = S.now
    /\ id_counter' = S.id_counter
    /\ deviations' = S.deviations
    /\ created' = S.created
    /\ removedCount' = S.removedCount
    /\ dirIdx' = IF dirIdx = Len(Directions) THEN 1 ELSE dirIdx + 1
    /\ frame' = IF dirIdx = Len(Directions) THEN frame + 1 ELSE frame

NumInDirection(direction) == SumLens(vehicles[direction], Lanes)

\* Draws other than the nominal ones that the current step may still make.
Budget == IF frame < DeviationFrames THEN MaxDeviations - deviations ELSE 0

\* The draws of random.random() at line 283 that the budget allows.
MoveDraws == MoveDrawSeqs(NumInDirection(Directions[dirIdx]), Budget)

\* The simulation state after the motion of the current direction and
\* update_stats(), with the event of env.step() popped; charged tells
\* whether the draws count against the budget of non-nominal draws.
AfterMotion(draws, charged) ==
    [Pop(update_stats(MoveDirection(Sim, Directions[dirIdx], draws)))
     EXCEPT !.deviations = @ + (IF charged THEN SumCost("move", draws) ELSE 0)]

WithinBudget(S) == S.deviations - deviations <= Budget

\* One pass whose env.step() resumes TrafficLight.run; drawSet holds the
\* admissible sequences of draws of line 283.
LightPass(drawSet, charged) ==
    /\ frame < MaxFrames
    /\ Head(queue)[2] = LightProcess
    /\ \E draws \in drawSet :
          \E S \in {run(AfterMotion(draws, charged))} : Commit(S)

\* One pass whose env.step() resumes generate_vehicles of one
\* (direction, lane).
GeneratorPass(drawSet, charged) ==
    /\ frame < MaxFrames
    /\ Head(queue)[2][1] = "generator"
    /\ \E draws \in drawSet, d \in {Head(queue)[2][2]}, l \in {Head(queue)[2][3]} :
          \E S \in {AfterMotion(draws, charged)} :
             IF WillSpawn(S, d, l)
             THEN \E rLength \in Draws.length, rTurn \in Draws.turn,
                     delay \in Draws.delay :
                     \E T \in {GeneratorTimeout(Spawn(S, d, l, rLength, rTurn), d, l, delay)} :
                        WithinBudget(T) /\ Commit(T)
             ELSE \E delay \in Draws.delay :
                     \E T \in {GeneratorTimeout(S, d, l, delay)} :
                        WithinBudget(T) /\ Commit(T)

UpdateLight == LightPass(MoveDraws, TRUE)

UpdateGenerator == GeneratorPass(MoveDraws, TRUE)

Next == UpdateLight \/ UpdateGenerator

Spec == Init /\ [][Next]_vars

(***************************************************************************)
(* A second schedule of the draws of line 283, for the behaviour of        *)
(* vehicles that travel at different speeds after the intersection: a      *)
(* vehicle that has not crossed draws the nominal value; one that has      *)
(* crossed draws by its id, 0.08 (a slow step) when the id is a            *)
(* multiple of 4, 0.99 when the id is 2 modulo 4, the nominal value        *)
(* otherwise.  The draws of Vehicle.__init__ and of expovariate are as in  *)
(* Spec.                                                                   *)
(***************************************************************************)
PacedDraw(v) ==
    IF ~v.crossed_intersection THEN Nominal.move
    ELSE IF v.id % 4 = 0 THEN 8
    ELSE IF v.id % 4 = 2 THEN 99
    ELSE Nominal.move

RECURSIVE PacedLanes(_, _)
PacedLanes(lanes, lane_idx) ==
    IF lane_idx > NUM_LANES - 1 THEN << >>
    ELSE [j \in 1 .. Len(lanes[lane_idx]) |-> PacedDraw(lanes[lane_idx][j])]
         \o PacedLanes(lanes, lane_idx + 1)

PacedDraws == {PacedLanes(vehicles[Directions[dirIdx]], 0)}

PacedLight == LightPass(PacedDraws, FALSE)

PacedGenerator == GeneratorPass(PacedDraws, FALSE)

PacedNext == PacedLight \/ PacedGenerator

PacedSpec == Init /\ [][PacedNext]_vars

(***************************************************************************)
(* Properties.                                                             *)
(***************************************************************************)
AllLanes == {<<d, l>> : d \in DirectionSet, l \in Lanes}

LaneOf(dl) == vehicles[dl[1]][dl[2]]

TurnedOff(v) == v.turning_right /\ v.crossed_intersection

\* update() has returned: the pass of the last direction is complete
EndOfTick == dirIdx = 1 /\ frame > 0

\* C1.  Spacing invariant: at the end of every update tick, in every lane,
\* two consecutive vehicles neither of which is turning right and crossed
\* are at least 0.05 + max(length)/2 apart.
SpacedLane(lane) ==
    \A k \in 1 .. Len(lane) - 1 :
       (~TurnedOff(lane[k]) /\ ~TurnedOff(lane[k + 1]))
          => Abs(lane[k].position - lane[k + 1].position)
                >= min_follow(lane[k + 1], lane[k])

C1_SpacingInvariant == EndOfTick => \A dl \in AllLanes : SpacedLane(LaneOf(dl))

\* C2.  Light mutual exclusion: in every state exactly one of the groups
\* NS, EW is green or yellow and the other one is red.
C2_LightMutualExclusion ==
    \/ states.NS \in {"green", "yellow"} /\ states.EW = "red"
    \/ states.EW \in {"green", "yellow"} /\ states.NS = "red"

\* the in-place mutation self.states['NS'] = 'yellow' has happened
C2_Witness == states.NS = "yellow" /\ lightPc = 4

\* the vehicle with the id of v in the lane after the step, if it is there
Successors(dl, v) ==
    {w \in {vehicles'[dl[1]][dl[2]][j] : j \in 1 .. Len(vehicles'[dl[1]][dl[2]])} :
        w.id = v.id}

VehiclesOf(dl) == {LaneOf(dl)[k] : k \in 1 .. Len(LaneOf(dl))}

\* C3.  Crossing eligibility: crossed_intersection changes from false to
\* true only in a pass at whose processing of the vehicle its signal group
\* is green or the vehicle is turning right in the outermost lane.
C3_CrossingEligibility ==
    [][\A dl \in AllLanes : \A v \in VehiclesOf(dl) : \A w \in Successors(dl, v) :
          (~v.crossed_intersection /\ w.crossed_intersection)
             => \/ states[LightGroup(dl[1])] = "green"
                \/ (v.turning_right /\ dl[2] = NUM_LANES - 1)]_vars

\* a straight vehicle has crossed, and a right-turner has crossed from the
\* north while NS has been red since the start
C3_Witness ==
    /\ \E dl \in AllLanes : \E v \in VehiclesOf(dl) :
          v.crossed_intersection /\ ~v.turning_right
    /\ \E v \in VehiclesOf(<<"north", NUM_LANES - 1>>) :
          v.crossed_intersection /\ v.turning_right
    /\ now < GREEN_DURATION + YELLOW_DURATION

\* C4.  Completion conservation: in every state completed_count of a
\* direction equals the number of vehicles removed from its lanes so far
\* (removedCount counts every vehicles.remove of lines 303, 347, 355, 363
\* and 371).
C4_CompletionConservation ==
    \A d \in DirectionSet : stats[d].completed_count = removedCount[d]

C4_StraightCompleted == \E d \in DirectionSet : stats[d].completed_count > 0

CycleLength == (2 * GREEN_DURATION) + (2 * YELLOW_DURATION)

\* the phase TrafficLight.run is in at simulation time t
PhaseAt(t) ==
    LET m == t % CycleLength
    IN  IF m < GREEN_DURATION THEN [NS |-> "red", EW |-> "green"]
        ELSE IF m < GREEN_DURATION + YELLOW_DURATION THEN [NS |-> "red", EW |-> "yellow"]
        ELSE IF m < (2 * GREEN_DURATION) + YELLOW_DURATION THEN [NS |-> "green", EW |-> "red"]
        ELSE [NS |-> "yellow", EW |-> "red"]

\* a straight vehicle crosses in this step only under green
HeldUntilGreen ==
    \A dl \in AllLanes : \A v \in VehiclesOf(dl) : \A w \in Successors(dl, v) :
       (~v.turning_right /\ ~v.crossed_intersection /\ w.crossed_intersection)
          => states[LightGroup(dl[1])] = "green"

\* every straight vehicle that the light gate first held under red and that
\* has moved again has its time held among the wait times of its direction
WaitRecorded ==
    \A dl \in AllLanes : \A v \in VehiclesOf(dl) :
       (/\ ~v.turning_right
        /\ v.held_since # None
        /\ PhaseAt(v.held_since)[LightGroup(dl[1])] = "red"
        /\ v.resumed_at # None)
          => \E k \in 1 .. Len(stats[dl[1]].wait_times) :
                stats[dl[1]].wait_times[k] = v.resumed_at - v.held_since

\* C5.  Wait recording: a straight vehicle that arrives at the intersection
\* under red does not cross until its group is green, and once it has
\* moved again wait_times of its direction holds an entry equal to the time
\* it was held.
C5_WaitRecording == [][HeldUntilGreen /\ WaitRecorded']_vars

\* a straight vehicle was held under red and has moved again
C5_HeldAndResumed ==
    \E dl \in AllLanes : \E v \in VehiclesOf(dl) :
       /\ ~v.turning_right /\ v.held_since # None /\ v.resumed_at # None
       /\ PhaseAt(v.held_since)[LightGroup(dl[1])] = "red"

\* what the code records instead: nothing, for any vehicle
C5_NothingRecorded ==
    \A d \in DirectionSet :
       stats[d].wait_times = << >> /\ stats[d].current_waiting = {}

PhaseOrder ==
    { << [NS |-> "red",    EW |-> "green"],  [NS |-> "red",    EW |-> "yellow"] >>,
      << [NS |-> "red",    EW |-> "yellow"], [NS |-> "green",  EW |-> "red"] >>,
      << [NS |-> "green",  EW |-> "red"],    [NS |-> "yellow", EW |-> "red"] >>,
      << [NS |-> "yellow", EW |-> "red"],    [NS |-> "red",    EW |-> "green"] >> }

\* C6.  Phase cycle: the light changes phase only along the cycle
\* (NS red, EW green) -> (NS red, EW yellow) -> (NS green, EW red) ->
\* (NS yellow, EW red) -> (NS red, EW green); the phase at simulation time t
\* is the one that green phases of GREEN_DURATION and yellow phases of
\* YELLOW_DURATION give, hence the same as at t + 2*GREEN_DURATION +
\* 2*YELLOW_DURATION.
C6_PhaseCycle ==
    /\ [](states = PhaseAt(now))
    /\ [][states' # states => <<states, states'>> \in PhaseOrder]_vars

\* a full cycle has passed and the light is in its first phase again
C6_Witness ==
    /\ now >= CycleLength
    /\ states = [NS |-> "red", EW |-> "green"]
    /\ lightPc = 1

\* floor(TRAFFIC_VOLUME * 1.3) + 1
AdmissionBound == ((13 * TRAFFIC_VOLUME) \div 10) + 1

\* a generator has appended a vehicle in this step (line 247-248)
Appends == id_counter' # id_counter

\* C7.  Admission cap: a generator appends a vehicle only at a wake-up at
\* which the total number of vehicles is at most TRAFFIC_VOLUME * 1.3 (the
\* total at the wake-up is the one after the step less the new vehicle), so
\* the total never exceeds floor(TRAFFIC_VOLUME * 1.3) + 1.
C7_AdmissionCap ==
    /\ [](num_vehicles(vehicles) <= AdmissionBound)
    /\ [][Appends => 10 * (num_vehicles(vehicles') - 1) <= 13 * TRAFFIC_VOLUME]_vars

\* the cap binds: the total is at its bound and a generator is about to wake
C7_Witness ==
    /\ num_vehicles(vehicles) = AdmissionBound
    /\ Head(queue)[2] # LightProcess

\* the lane after the step without the vehicle a generator appended to it
Survivors(dl) ==
    LET lane == vehicles'[dl[1]][dl[2]]
    IN  IF id_counter'[dl[1]][dl[2]] # id_counter[dl[1]][dl[2]]
        THEN SubSeq(lane, 1, Len(lane) - 1) ELSE lane

\* the lane keeps its order: who was ahead stays ahead in the sequence
OrderKept ==
    \A dl \in AllLanes :
       LET s == LaneOf(dl)
           t == Survivors(dl)
       IN  \A j, k \in 1 .. Len(t) :
              j < k => \E a, b \in 1 .. Len(s) :
                          a < b /\ s[a].id = t[j].id /\ s[b].id = t[k].id

\* position along the direction of travel: smaller is further along
Ahead(direction, a, b) ==
    IF direction \in {"north", "east"} THEN a.position <= b.position
    ELSE a.position >= b.position

NoOvertaking ==
    \A dl \in AllLanes : \A j, k \in 1 .. Len(LaneOf(dl)) :
       (j < k /\ ~TurnedOff(LaneOf(dl)[j]) /\ ~TurnedOff(LaneOf(dl)[k]))
          => Ahead(dl[1], LaneOf(dl)[j], LaneOf(dl)[k])

\* C8.  Lane order: vehicles are appended only at the tail of a lane, the
\* relative order of the vehicles of a lane never changes, and of two
\* vehicles of a lane that have not turned the earlier one is never behind
\* the later one along the direction of travel.
C8_LaneOrder == [](NoOvertaking) /\ [][OrderKept]_vars

\* the sequence order itself is kept in every step
C8_OrderKept == [][OrderKept]_vars

\* the side of the intersection a vehicle of the direction starts on
StartSide(direction, position) ==
    IF direction \in {"north", "east"} THEN position > 0 ELSE position < 0

\* a vehicle that has not crossed does not move away from the intersection
\* in this step, and keeps its distance only by keeping its position
Approaches ==
    \A dl \in AllLanes : \A v \in VehiclesOf(dl) : \A w \in Successors(dl, v) :
       ~v.crossed_intersection
          => /\ Abs(w.position) <= Abs(v.position)
             /\ (Abs(w.position) = Abs(v.position) => w.position = v.position)

InsideBeforeCrossing ==
    \A dl \in AllLanes : \A v \in VehiclesOf(dl) :
       ~v.crossed_intersection
          => /\ Abs(v.position) <= OBSERVATION_ZONE_LENGTH
             /\ StartSide(dl[1], v.position)

\* C9.  Monotonic approach: for a vehicle that has not crossed, |position|
\* after a pass is at most |position| before it, equal only when the
\* position is unchanged; |position| never exceeds OBSERVATION_ZONE_LENGTH
\* and the position keeps its sign until the vehicle has crossed.
C9_MonotonicApproach == [](InsideBeforeCrossing) /\ [][Approaches]_vars

\* one vehicle stands held at the light, short of the intersection, while
\* another one of its lane is still approaching behind it
C9_Witness ==
    \E dl \in AllLanes : \E v, w \in VehiclesOf(dl) :
       /\ ~v.crossed_intersection /\ v.held_since # None
       /\ Abs(v.position) < stop_position
       /\ ~w.crossed_intersection /\ w.held_since = None
       /\ Abs(w.position) < OBSERVATION_ZONE_LENGTH

\* C10.  Unique ids: no two vehicles ever created by the generators, over
\* all directions and lanes, have the same id (created holds the direction,
\* lane and id of every vehicle a generator has created).
C10_UniqueIds == \A a, b \in created : a[3] = b[3] => a = b

\* what the code gives: ids are unique within one lane of one direction
C10_UniqueInLane ==
    \A dl \in AllLanes : \A j, k \in 1 .. Len(LaneOf(dl)) :
       LaneOf(dl)[j].id = LaneOf(dl)[k].id => j = k

\* two vehicles with the same id are in the lanes at the same time
C10_SameIdTwice ==
    \E a, b \in AllLanes : \E v \in VehiclesOf(a), w \in VehiclesOf(b) :
       a # b /\ v.id = w.id


\* the pass of the current direction is not the last one of its call of
\* update(): the next pass belongs to the same tick
InsideTick == dirIdx < Len(Directions)

\* the light the current direction reads at line 271 is the one the next
\* direction reads
SameLightInTick == InsideTick => states' = states

\* no generator appends a vehicle between two directions of one tick
NoSpawnInTick == InsideTick => id_counter' = id_counter

\* C11.  Tick ordering: between the motion of two directions of one update
\* tick no light transition and no spawn is processed, so that every
\* direction of the tick reads the same light state.
C11_TickOrdering == [][SameLightInTick /\ NoSpawnInTick]_vars

\* the part of C11 about the light alone: north and south of one tick read
\* the same NS state, east and west the same EW state
C11_SameGroupState ==
    [][(dirIdx \in {1, 3}) =>
          states'[LightGroup(Directions[dirIdx])] = states[LightGroup(Directions[dirIdx])]]_vars


(***************************************************************************)
(* A schedule of the random draws for behaviours without an end.  The      *)
(* draws of a vehicle depend on its id modulo IdPeriod: the vehicles with  *)
(* id 1, 5, 9, ... are of double length and draw 0.08 (a slow step) at     *)
(* line 283 until they have crossed, the vehicles with id 2, 6, 10, ...    *)
(* turn right, and every other draw of random.random() is the nominal      *)
(* one; the first vehicle from the north and the first from the east are   *)
(* of either length and turn right or go straight.  random.expovariate     *)
(* returns 4 seconds at every call of line 252, but 4 or 8 seconds at the  *)
(* first call of the generator of the south (the largest value it can      *)
(* return is -log(2^-53)/2.4 = 15.3 s).  Under a red light the lanes fill  *)
(* up behind the stop line, the slow vehicles hold up the ones behind      *)
(* them, right-turners leave from the middle of the road, and the follow   *)
(* gate of lines 318-330 stops vehicles in every cycle.                    *)
(*                                                                         *)
(* The values that grow without bound are kept relative to an origin that  *)
(* moves, in a form the program cannot tell from the one it holds.  The    *)
(* clock is relative to a recent start of the light's cycle: the program   *)
(* reads env.now only in differences and TrafficLight.run repeats with     *)
(* the period of the cycle.  The ids of a direction are relative to a      *)
(* multiple of IdPeriod: update() and generate_vehicles read an id only    *)
(* to print it and as the key of current_waiting, the renumbering          *)
(* subtracts the same multiple of IdPeriod from the id of every vehicle    *)
(* of the direction, from every key of its current_waiting and from its    *)
(* id_counter, so that two ids are equal after it exactly if they were     *)
(* equal before it, and the draws of a vehicle are the same.  The          *)
(* counters completed_count and removedCount, which no code of update()    *)
(* or generate_vehicles reads, are relative to a multiple of IdPeriod as   *)
(* well.  The history is not kept, and frame stops counting at MaxFrames.  *)
(***************************************************************************)
\* the largest interval random.expovariate(AVERAGE_ARRIVAL_RATE) returns,
\* -log(1 - random()) / 2.4 with random() <= 1 - 2^-53: 15.307 s
MaxInterval == (15 * TimeUnit) + 2

\* every wake-up of a generator is scheduled after an interval that
\* random.expovariate can return
IntervalsDrawable ==
    \A k \in 1 .. Len(queue) :
       queue[k][2][1] = "generator" =>
          (queue[k][1] >= now /\ queue[k][1] - now <= MaxInterval)

LongInterval == 4 * TimeUnit

\* the draws of line 283 when every vehicle draws the nominal value
NominalDraws ==
    {[j \in 1 .. NumInDirection(Directions[dirIdx]) |-> Nominal.move]}

\* the ids with the same draws are this far apart
IdPeriod == 4

\* the draw of line 283
SparseDraw(v) ==
    IF v.id % IdPeriod = 1 /\ ~v.crossed_intersection THEN 8 ELSE Nominal.move

RECURSIVE SparseLanes(_, _)
SparseLanes(lanes, lane_idx) ==
    IF lane_idx > NUM_LANES - 1 THEN << >>
    ELSE [j \in 1 .. Len(lanes[lane_idx]) |-> SparseDraw(lanes[lane_idx][j])]
         \o SparseLanes(lanes, lane_idx + 1)

SparseMoveDraws == {SparseLanes(vehicles[Directions[dirIdx]], 0)}

\* the vehicles the generators of the north and of the east create in the
\* first call of update()
FirstVehicle(direction) == frame = 0 /\ direction \in {"north", "east"}

\* the draws of line 35 for the vehicle with this id
SparseLengths(direction, id) ==
    IF FirstVehicle(direction) THEN Draws.length
    ELSE IF id % IdPeriod = 1 THEN Draws.length \ {Nominal.length}
         ELSE {Nominal.length}

\* the draws of line 63 for the vehicle with this id
SparseTurns(direction, id) ==
    IF FirstVehicle(direction) THEN Draws.turn
    ELSE IF id % IdPeriod = 2 THEN Draws.turn \ {Nominal.turn}
         ELSE {Nominal.turn}

\* the draws of line 252 after the generator has created a vehicle: the
\* generator of the south waits 4 or 8 seconds after its first vehicle
SparseIntervals(direction) ==
    IF frame = 0 /\ direction = "south"
    THEN {LongInterval, 2 * LongInterval} ELSE {LongInterval}

NoHistory(v) == [v EXCEPT !.held_since = None, !.resumed_at = None]

\* every time the state holds is at least one light cycle after the origin
Shiftable(S) ==
    /\ S.now >= CycleLength
    /\ \A dl \in AllLanes : \A k \in 1 .. Len(S.vehicles[dl[1]][dl[2]]) :
          LET w == S.vehicles[dl[1]][dl[2]][k].wait_start
          IN  w = None \/ w >= CycleLength
    /\ \A d \in DirectionSet : \A e \in S.stats[d].current_waiting :
          e[2] >= CycleLength

ShiftVehicle(v, by) ==
    [NoHistory(v) EXCEPT !.wait_start = IF @ = None THEN None ELSE @ - by]

\* the state with the origin of time moved forward by `by` units: every
\* time the program holds moves with it (env.now, the times of the events
\* scheduled, wait_start of the vehicles and the times start_waiting has
\* put in current_waiting); wait_times holds durations
Shift(S, by) ==
    [S EXCEPT !.now      = @ - by,
              !.queue    = [k \in 1 .. Len(S.queue) |->
                               <<S.queue[k][1] - by, S.queue[k][2]>>],
              !.vehicles = [d \in DirectionSet |-> [l \in Lanes |->
                               [k \in 1 .. Len(S.vehicles[d][l]) |->
                                   ShiftVehicle(S.vehicles[d][l][k], by)]]],
              !.stats    = [d \in DirectionSet |->
                               [S.stats[d] EXCEPT !.current_waiting =
                                   {<<e[1], e[2] - by>> : e \in @}]]]

\* every id the direction holds is at least IdPeriod: the ids of the
\* vehicles in its lanes, the keys of its current_waiting and the ids its
\* generators give next
Renumberable(S, direction) ==
    /\ \A l \in Lanes :
          /\ S.id_counter[direction][l] >= IdPeriod
          /\ \A k \in 1 .. Len(S.vehicles[direction][l]) :
                S.vehicles[direction][l][k].id >= IdPeriod
    /\ \A e \in S.stats[direction].current_waiting : e[1] >= IdPeriod

IdOrigin(S, direction) == IF Renumberable(S, direction) THEN IdPeriod ELSE 0

Relative(count) == IF count >= IdPeriod THEN count - IdPeriod ELSE count

\* the state with the origin of the ids of every direction that allows it
\* moved forward by IdPeriod
Renumber(S) ==
    [S EXCEPT !.id_counter   = [d \in DirectionSet |-> [l \in Lanes |->
                                   S.id_counter[d][l] - IdOrigin(S, d)]],
              !.vehicles     = [d \in DirectionSet |-> [l \in Lanes |->
                                   [k \in 1 .. Len(S.vehicles[d][l]) |->
                                       [S.vehicles[d][l][k] EXCEPT
                                           !.id = @ - IdOrigin(S, d)]]]],
              !.stats        = [d \in DirectionSet |->
                                   [S.stats[d] EXCEPT
                                       !.completed_count = Relative(@),
                                       !.current_waiting =
                                           {<<e[1] - IdOrigin(S, d), e[2]>> : e \in @}]],
              !.created      = {},
              !.removedCount = [d \in DirectionSet |-> Relative(S.removedCount[d])]]

Rebase(S) == Renumber(IF Shiftable(S) THEN Shift(S, CycleLength) ELSE Shift(S, 0))

\* The end of a pass in this schedule: as Commit, on the rebased state; the
\* draws are not counted.
Recur(S) ==
    /\ \E T \in {Rebase(S)} :
          /\ vehicles' = T.vehicles
          /\ stats' = T.stats
          /\ states' = T.states
          /\ lightPc' = T.lightPc
          /\ queue' = T.queue
          /\ now' = T.now
          /\ id_counter' = T.id_counter
          /\ created' = T.created
          /\ removedCount' = T.removedCount
    /\ deviations' = deviations
    /\ dirIdx' = IF dirIdx = Len(Directions) THEN 1 ELSE dirIdx + 1
    /\ frame' = IF dirIdx = Len(Directions) /\ frame < MaxFrames
                THEN frame + 1 ELSE frame

SparseLight ==
    /\ Head(queue)[2] = LightProcess
    /\ \E draws \in SparseMoveDraws :
          \E S \in {run(AfterMotion(draws, FALSE))} : Recur(S)

SparseGenerator ==
    /\ Head(queue)[2][1] = "generator"
    /\ \E draws \in SparseMoveDraws, d \in {Head(queue)[2][2]}, l \in {Head(queue)[2][3]} :
          \E S \in {AfterMotion(draws, FALSE)} :
             IF WillSpawn(S, d, l)
             THEN \E rLength \in SparseLengths(d, S.id_counter[d][l]),
                     rTurn \in SparseTurns(d, S.id_counter[d][l]) :
                     \E delay \in SparseIntervals(d) :
                        \E T \in {GeneratorTimeout(Spawn(S, d, l, rLength, rTurn),
                                                   d, l, delay)} : Recur(T)
             ELSE \E T \in {GeneratorTimeout(S, d, l, LongInterval)} : Recur(T)

SparseNext == SparseLight \/ SparseGenerator

\* update()'s loop over the directions goes on to the next direction: a
\* step that every pass makes and nothing else does
Tick == dirIdx' = IF dirIdx = Len(Directions) THEN 1 ELSE dirIdx + 1

\* update() is called again and again (FuncAnimation), and each pass runs
\* env.step() on a queue that is never empty: the passes never stop
SparseSpec == Init /\ [][SparseNext]_vars /\ WF_dirIdx(Tick)

\* no lane holds two vehicles with one id
DistinctInLane ==
    \A dl \in AllLanes : \A j, k \in 1 .. Len(LaneOf(dl)) :
       LaneOf(dl)[j].id = LaneOf(dl)[k].id => j = k

\* what the step has subtracted from the ids of the direction
Renumbered(direction) ==
    IF \E l \in Lanes : id_counter'[direction][l] < id_counter[direction][l]
    THEN IdPeriod ELSE 0

\* the ids of the vehicles of the lane, in the order of the list
IdsBefore(dl) == [k \in 1 .. Len(LaneOf(dl)) |-> LaneOf(dl)[k].id - Renumbered(dl[1])]

IdsAfter(dl) ==
    [k \in 1 .. Len(vehicles'[dl[1]][dl[2]]) |-> vehicles'[dl[1]][dl[2]][k].id]

\* s without the elements that are not elements of t
RECURSIVE Kept(_, _)
Kept(s, t) ==
    IF s = << >> THEN << >>
    ELSE IF \E k \in 1 .. Len(t) : t[k] = Head(s)
         THEN <<Head(s)>> \o Kept(Tail(s), t)
         ELSE Kept(Tail(s), t)

\* the step keeps the order of the lane: the vehicles that stay are in the
\* order they were in, and the only vehicle the lane can gain is one the
\* generator appends at the end (lines 248 and 302-391: append and remove)
StaysInOrder(dl) ==
    \/ IdsAfter(dl) = Kept(IdsBefore(dl), IdsAfter(dl))
    \/ /\ IdsAfter(dl) # << >>
       /\ SubSeq(IdsAfter(dl), 1, Len(IdsAfter(dl)) - 1)
             = Kept(IdsBefore(dl), IdsAfter(dl))
       /\ \A k \in 1 .. Len(IdsBefore(dl)) :
             IdsBefore(dl)[k] # IdsAfter(dl)[Len(IdsAfter(dl))]

\* the lane holds no vehicle, or the step removes the vehicle at the head
\* of the lane from it
HeadLeaves(dl) ==
    \/ LaneOf(dl) = << >>
    \/ \A k \in 1 .. Len(IdsAfter(dl)) : IdsAfter(dl)[k] # IdsBefore(dl)[1]

\* C12.  Liveness: while update() is called again and again and the
\* scheduled events are processed, every vehicle that is appended to a
\* lane is eventually removed from that lane.  A lane is a list to which
\* vehicles are appended at the end and from which vehicles are removed
\* without a change of the order of the others (StaysInOrder, every step),
\* so that a vehicle that is the k-th of its lane has left the lane at the
\* latest when the vehicle at the head of the lane has been removed k
\* times: every vehicle of a lane is eventually removed exactly if, for
\* every lane, again and again the lane is empty or the vehicle at its
\* head is removed.
C12_EventuallyRemoved ==
    /\ [][\A dl \in AllLanes : StaysInOrder(dl)]_vars
    /\ \A dl \in AllLanes : []<><<HeadLeaves(dl)>>_vars

\* update() has been called MaxFrames times, vehicles of the direction
\* have left at the far boundary, and behind a red light the lane holds a
\* queue of at least five vehicles that have not crossed, one of double
\* length among them, of which the last is stopped by the follow gate
C12_Witness ==
    \E dl \in AllLanes :
       /\ frame = MaxFrames
       /\ stats[dl[1]].completed_count > 0
       /\ states[LightGroup(dl[1])] = "red"
       /\ Cardinality({k \in 1 .. Len(LaneOf(dl)) :
                          ~LaneOf(dl)[k].crossed_intersection}) >= 5
       /\ \E k \in 1 .. Len(LaneOf(dl)) :
             /\ ~LaneOf(dl)[k].crossed_intersection
             /\ LaneOf(dl)[k].length > CAR_LENGTH
       /\ LET n == Len(LaneOf(dl))
          IN  /\ ~LaneOf(dl)[n].crossed_intersection
              /\ ~within_following_distance(LaneOf(dl)[n], LaneOf(dl)[n - 1])


\* C13.  Snapshot consistency of waiting_count: in the state a call of
\* update() leaves, waiting_count of every direction is the count that
\* update_stats computes from the lanes and the light of that state.
C13_WaitingCountSnapshot ==
    EndOfTick => \A d \in DirectionSet :
                    stats[d].waiting_count = WaitingCount(vehicles, states, d)


(***************************************************************************)
(* TrafficStats on its own.  No run of the simulation appends to           *)
(* wait_times (C5), so the window is exercised here by calling the code    *)
(* that appends to it, in any order: the completion check of lines         *)
(* 298-302 on a crossed vehicle at the far boundary, start_waiting and     *)
(* stop_waiting.  One unit of time passes per call.  A vehicle that has    *)
(* waited has waited since time 0, so that the entry appended at time t is *)
(* t and the entries tell the order in which they were appended.  The      *)
(* calls other than the completion of a vehicle that has waited are        *)
(* counted in deviations, and at most MaxDeviations of them are made.      *)
(***************************************************************************)
MaxCalls == 54

WindowIds == {0, 1}

\* a crossed vehicle at the far boundary, as line 298 asks
FinishedVehicle(wait_start) ==
    [Vehicle(0, "north", 0, Nominal.length, Nominal.turn)
       EXCEPT !.position = -OBSERVATION_ZONE_LENGTH,
              !.crossed_intersection = TRUE,
              !.wait_start = wait_start]

WindowStep(st, charge) ==
    /\ now < MaxCalls
    /\ deviations + charge <= MaxDeviations
    /\ stats' = [stats EXCEPT !["north"] = st]
    /\ now' = now + 1
    /\ deviations' = deviations + charge
    /\ UNCHANGED <<vehicles, states, lightPc, queue, id_counter, dirIdx, frame,
                   created, removedCount>>

CompleteWaited ==
    /\ IsCompleted(FinishedVehicle(0))
    /\ WindowStep(Complete(stats["north"], FinishedVehicle(0), now), 0)

CompleteUnwaited ==
    /\ IsCompleted(FinishedVehicle(None))
    /\ WindowStep(Complete(stats["north"], FinishedVehicle(None), now), 1)

StartWaiting ==
    \E id \in WindowIds : WindowStep(start_waiting(stats["north"], id, 0), 1)

\* called for a vehicle that is waiting: for any other it does nothing
StopWaiting ==
    \E id \in WindowIds :
       /\ \E e \in stats["north"].current_waiting : e[1] = id
       /\ WindowStep(stop_waiting(stats["north"], id, now), 0)

WindowNext == CompleteWaited \/ CompleteUnwaited \/ StartWaiting \/ StopWaiting

WindowSpec == Init /\ [][WindowNext]_vars

\* the window of a direction never holds more than its capacity
WindowBounded ==
    \A d \in DirectionSet : Len(stats[d].wait_times) <= WAIT_TIMES_MAXLEN

\* a step that changes a window appends one entry to it, after dropping
\* the oldest entry if the window was full
AppendsFifo ==
    \A d \in DirectionSet :
       LET old == stats[d].wait_times
           new == stats'[d].wait_times
       IN  new # old =>
              /\ Len(new) >= 1
              /\ SubSeq(new, 1, Len(new) - 1)
                    = IF Len(old) = WAIT_TIMES_MAXLEN THEN Tail(old) ELSE old

\* C14.  Rolling window bound: wait_times of a direction never holds more
\* than 50 entries, and an append to a full window evicts the oldest entry
\* and keeps the order of the others.
C14_RollingWindow == [](WindowBounded) /\ [][AppendsFifo]_vars

\* the window is full, entries have been evicted, and entries of both
\* stop_waiting and the completion check are in it
C14_Witness ==
    /\ Len(stats["north"].wait_times) = WAIT_TIMES_MAXLEN
    /\ stats["north"].wait_times[1] > 0
    /\ stats["north"].completed_count < now - 1
    /\ stats["north"].current_waiting = {}
    /\ deviations = 1


\* the lane after the step, and the place in it of the vehicle with the id
\* of v (ids are unique within a lane)
PostLane(dl) == vehicles'[dl[1]][dl[2]]

Survives(dl, v) == \E k \in 1 .. Len(PostLane(dl)) : PostLane(dl)[k].id = v.id

IndexAfter(dl, v) == CHOOSE k \in 1 .. Len(PostLane(dl)) : PostLane(dl)[k].id = v.id

\* the vehicle as the gate of line 318 sees it in this pass: neither removed
\* by the completion check nor held at the crossing, and crossed if line
\* 312 has run
AllowedNow(dl, v) ==
    allow_movement(can_move(states[LightGroup(dl[1])]), v, dl[2])

ReachesGate(dl, v) ==
    ~IsCompleted(v) /\ ~(AtCrossing(v) /\ ~AllowedNow(dl, v))

AtGate(v) == IF AtCrossing(v) THEN Cross(v) ELSE v

HasMoved(v, w) == w.position # v.position \/ w.lateral # v.lateral

\* For the vehicle v of the lane that is still in the lane after the pass,
\* has a vehicle ahead of it there, reaches the gate and is not stopped by
\* the light: it moves exactly if the gate, applied to the vehicle directly
\* ahead of it at that vehicle's position after the pass, lets it move.
FollowsPredecessor(dl, v) ==
    (/\ Survives(dl, v)
     /\ IndexAfter(dl, v) > 1
     /\ ReachesGate(dl, v)
     /\ ~StoppedAtLight(AtGate(v), AllowedNow(dl, v)))
       => LET k == IndexAfter(dl, v)
          IN  HasMoved(v, PostLane(dl)[k])
                 <=> within_following_distance(AtGate(v), PostLane(dl)[k - 1])

\* C15.  Predecessor rule: in every pass over a lane the following-distance
\* gate decides for every vehicle that has a vehicle ahead of it by the
\* vehicle directly ahead of it, at the position that vehicle has after
\* its own processing in this pass.
C15_PredecessorRule ==
    [][\A l \in Lanes : \A v \in VehiclesOf(<<Directions[dirIdx], l>>) :
          FollowsPredecessor(<<Directions[dirIdx], l>>, v)]_vars


\* nothing of the claim's list holds the vehicle back in this pass: it is
\* not removed by the completion check, not held at the crossing or by the
\* stop gate, and the vehicle directly ahead of it, if there is one, is at
\* least the minimum follow distance away or is turning and has crossed
Unblocked(dl, v) ==
    /\ Survives(dl, v)
    /\ ReachesGate(dl, v)
    /\ ~StoppedAtLight(AtGate(v), AllowedNow(dl, v))
    /\ IF IndexAfter(dl, v) = 1 THEN TRUE
       ELSE within_following_distance(AtGate(v), PostLane(dl)[IndexAfter(dl, v) - 1])

\* C16.  Progress when unblocked: in every pass over a lane, a vehicle that
\* nothing holds back changes its position, or its lateral coordinate if
\* it is a right-turner that has crossed.
C16_ProgressWhenUnblocked ==
    [][\A l \in Lanes : \A v \in VehiclesOf(<<Directions[dirIdx], l>>) :
          Unblocked(<<Directions[dirIdx], l>>, v)
             => HasMoved(v, PostLane(<<Directions[dirIdx], l>>)
                               [IndexAfter(<<Directions[dirIdx], l>>, v)])]_vars


\* the vehicle is in the lane after the pass where and as it was before
StaysPut(dl, v) ==
    /\ Survives(dl, v)
    /\ LET w == PostLane(dl)[IndexAfter(dl, v)]
       IN  /\ w.position = v.position
           /\ w.lateral = v.lateral
           /\ w.crossed_intersection = v.crossed_intersection

InStopZone(v) == ~v.crossed_intersection /\ Abs(v.position) < stop_position

\* C17.  Red/yellow stop gate: in every pass, a vehicle that has not
\* crossed, is inside the stopping zone (|position| < 0.1 * (NUM_LANES / 2)
\* + CAR_LENGTH) and is not allowed to move (its group is red or yellow and
\* it is not a right-turner of the outermost lane) keeps its position, its
\* lateral coordinate and crossed_intersection.
C17_StopGate ==
    [][\A l \in Lanes : \A v \in VehiclesOf(<<Directions[dirIdx], l>>) :
          (InStopZone(v) /\ ~AllowedNow(<<Directions[dirIdx], l>>, v))
             => StaysPut(<<Directions[dirIdx], l>>, v)]_vars

\* a straight vehicle inside the stopping zone has been held since its
\* group was yellow, and another one since its group was red
C17_Witness ==
    \E a, b \in AllLanes : \E v \in VehiclesOf(a), w \in VehiclesOf(b) :
       /\ InStopZone(v) /\ ~v.turning_right /\ v.held_since # None
       /\ PhaseAt(v.held_since)[LightGroup(a[1])] = "yellow"
       /\ InStopZone(w) /\ ~w.turning_right /\ w.held_since # None
       /\ PhaseAt(w.held_since)[LightGroup(b[1])] = "red"


\* C18.  wait_start is set when a vehicle becomes blocked: after every pass
\* in which a vehicle that has not crossed was inside the stopping zone and
\* not allowed to move, its wait_start is set; and after every pass in
\* which a vehicle has moved, its wait_start is cleared.
C18_WaitStartSet ==
    [][\A l \in Lanes : \A v \in VehiclesOf(<<Directions[dirIdx], l>>) :
          LET dl == <<Directions[dirIdx], l>>
          IN  /\ (InStopZone(v) /\ ~AllowedNow(dl, v))
                    => (Survives(dl, v)
                        /\ PostLane(dl)[IndexAfter(dl, v)].wait_start # None)
              /\ (Survives(dl, v) /\ HasMoved(v, PostLane(dl)[IndexAfter(dl, v)]))
                    => PostLane(dl)[IndexAfter(dl, v)].wait_start = None]_vars

\* a vehicle is held inside the stopping zone by the light, and another
\* vehicle has been held and has moved again
C18_Witness ==
    \E a, b \in AllLanes : \E v \in VehiclesOf(a), w \in VehiclesOf(b) :
       /\ InStopZone(v) /\ ~v.turning_right /\ v.held_since # None
       /\ states[LightGroup(a[1])] = "red"
       /\ w.resumed_at # None

\* what the code does: the vehicles the light holds at 0.07 or more from
\* the centre never have wait_start set
C18_FarStopUnrecorded ==
    \A dl \in AllLanes : \A v \in VehiclesOf(dl) :
       Abs(v.position) >= MINIMUM_FOLLOW_DISTANCE => v.wait_start = None


\* C19.  is_waiting is derived in every tick: after every pass over a
\* lane, for every vehicle that is still in the lane, is_waiting is true
\* exactly if the position of the vehicle has not changed in the pass.
C19_IsWaitingDerived ==
    [][\A l \in Lanes : \A v \in VehiclesOf(<<Directions[dirIdx], l>>) :
          LET dl == <<Directions[dirIdx], l>>
          IN  Survives(dl, v)
                 => (PostLane(dl)[IndexAfter(dl, v)].is_waiting
                        <=> PostLane(dl)[IndexAfter(dl, v)].position = v.position)]_vars

\* what the code does: no vehicle that has not crossed is ever marked as
\* waiting
C19_NeverWaitingBeforeCrossing ==
    \A dl \in AllLanes : \A v \in VehiclesOf(dl) :
       v.is_waiting => (v.turning_right /\ v.crossed_intersection)


(***************************************************************************)
(* A fourth schedule of the random draws, with a lull in the arrivals from *)
(* the east: random.expovariate returns 8.5 to 9.875 seconds to the        *)
(* generator of the east lane while it has created one vehicle and an      *)
(* eighth of a second at every other call, and every other draw is the     *)
(* nominal one.  EW is green from the start, so the first vehicle from the *)
(* east crosses without stopping, and about 55 calls of update() are made  *)
(* in nine seconds: the generator of the east wakes up while its only      *)
(* vehicle is on the far side of the intersection.                         *)
(***************************************************************************)
ShortInterval == 1

LullIntervals == ((17 * TimeUnit) \div 2) .. ((10 * TimeUnit) - 1)

LullDelays(S, direction, lane) ==
    IF direction = "east" /\ S.id_counter[direction][lane] = 1
    THEN LullIntervals ELSE {ShortInterval}

LullLight == LightPass(NominalDraws, FALSE)

LullGenerator ==
    /\ frame < MaxFrames
    /\ Head(queue)[2][1] = "generator"
    /\ \E draws \in NominalDraws, d \in {Head(queue)[2][2]}, l \in {Head(queue)[2][3]} :
          \E S \in {AfterMotion(draws, FALSE)} :
             IF WillSpawn(S, d, l)
             THEN \E T \in {Spawn(S, d, l, Nominal.length, Nominal.turn)} :
                     \E delay \in LullDelays(T, d, l) :
                        \E V \in {GeneratorTimeout(T, d, l, delay)} : Commit(V)
             ELSE \E delay \in LullDelays(S, d, l) :
                     \E V \in {GeneratorTimeout(S, d, l, delay)} : Commit(V)

LullNext == LullLight \/ LullGenerator

LullSpec == Init /\ [][LullNext]_vars

\* env.step() of this pass resumes the generator of the lane dl
WakesUp(dl) == Head(queue)[2] = Generator(dl[1], dl[2])

\* the generator has created a vehicle in this pass
Spawned(dl) == id_counter'[dl[1]][dl[2]] = id_counter[dl[1]][dl[2]] + 1

\* the lane, and the number of vehicles, as the generator finds them
LaneAtWakeUp(dl) ==
    IF Spawned(dl) THEN SubSeq(PostLane(dl), 1, Len(PostLane(dl)) - 1)
    ELSE PostLane(dl)

CountAtWakeUp(dl) == num_vehicles(vehicles') - (IF Spawned(dl) THEN 1 ELSE 0)

\* the lane is empty, or its last vehicle is more than the minimum follow
\* distance along the road from the point where vehicles enter
RoomAtEntry(direction, lane) ==
    IF lane = << >> THEN TRUE
    ELSE Abs(InitialPosition(direction) - lane[Len(lane)].position)
           > MINIMUM_FOLLOW_DISTANCE

AppendedAtEntry(dl) ==
    /\ Len(PostLane(dl)) = Len(LaneAtWakeUp(dl)) + 1
    /\ PostLane(dl)[Len(PostLane(dl))].position = InitialPosition(dl[1])
    /\ ~PostLane(dl)[Len(PostLane(dl))].crossed_intersection

Rescheduled(dl) ==
    \E k \in 1 .. Len(queue') :
       queue'[k][2] = Generator(dl[1], dl[2]) /\ queue'[k][1] > now'

\* C20.  Spawn decision: at every wake-up of a generator at which the
\* number of vehicles is at most TRAFFIC_VOLUME * 1.3, a vehicle is
\* appended to the tail of the lane, at the entry point, exactly if the
\* lane is empty or its last vehicle is more than MINIMUM_FOLLOW_DISTANCE
\* along the road from the entry point; at any other wake-up nothing is
\* appended; and the generator wakes up again after its next interval.
C20_SpawnDecision ==
    [][\A dl \in AllLanes :
          WakesUp(dl) =>
             /\ IF 10 * CountAtWakeUp(dl) <= 13 * TRAFFIC_VOLUME
                THEN Spawned(dl) <=> RoomAtEntry(dl[1], LaneAtWakeUp(dl))
                ELSE ~Spawned(dl)
             /\ Spawned(dl) => AppendedAtEntry(dl)
             /\ Rescheduled(dl)]_vars

\* a generator has just woken up and drawn its next interval while the
\* last vehicle of its lane has crossed and is within the minimum follow
\* distance of the far boundary, and it has appended nothing
C20_Witness ==
    \E dl \in AllLanes :
       /\ LaneOf(dl) # << >>
       /\ LaneOf(dl)[Len(LaneOf(dl))].crossed_intersection
       /\ ~LaneOf(dl)[Len(LaneOf(dl))].turning_right
       /\ Abs(LaneOf(dl)[Len(LaneOf(dl))].position + InitialPosition(dl[1]))
             <= MINIMUM_FOLLOW_DISTANCE
       /\ \E k \in 1 .. Len(queue) :
             /\ queue[k][2] = Generator(dl[1], dl[2])
             /\ queue[k][1] - now \in LullIntervals


(***************************************************************************)
(* A third schedule of the draws of line 283, for vehicles that close up   *)
(* on the vehicle ahead: a vehicle with an odd id draws 0.99 (a fast       *)
(* step) until it has crossed and the nominal value afterwards; one with   *)
(* an even id draws the nominal value until it has crossed and 0.08 (a     *)
(* slow step) afterwards.  The draws of Vehicle.__init__ and of            *)
(* expovariate are as in Spec.                                             *)
(***************************************************************************)
ClosingDraw(v) ==
    IF v.id % 2 = 1
    THEN IF v.crossed_intersection THEN Nominal.move ELSE 99
    ELSE IF v.crossed_intersection THEN 8 ELSE Nominal.move

RECURSIVE ClosingLanes(_, _)
ClosingLanes(lanes, lane_idx) ==
    IF lane_idx > NUM_LANES - 1 THEN << >>
    ELSE [j \in 1 .. Len(lanes[lane_idx]) |-> ClosingDraw(lanes[lane_idx][j])]
         \o ClosingLanes(lanes, lane_idx + 1)

ClosingDraws == {ClosingLanes(vehicles[Directions[dirIdx]], 0)}

ClosingLight == LightPass(ClosingDraws, FALSE)

ClosingGenerator == GeneratorPass(ClosingDraws, FALSE)

ClosingNext == ClosingLight \/ ClosingGenerator

ClosingSpec == Init /\ [][ClosingNext]_vars

(***************************************************************************)
(* A schedule of the draws for a right-turner that reaches the             *)
(* intersection close behind a slow vehicle.  At line 283 a vehicle whose  *)
(* id is a multiple of 4 draws the nominal value until it has crossed and  *)
(* 0.08 (a slow step) afterwards; every other vehicle draws 0.99 (a fast   *)
(* step) until it has crossed and the nominal value afterwards.  Every     *)
(* vehicle is of normal length; the vehicles with ids 2 and 3 turn right   *)
(* or go straight, at most MaxDeviations of them turning, and every other  *)
(* vehicle goes straight; random.expovariate returns 1 s at every call.    *)
(***************************************************************************)
ConvoyDraw(v) ==
    IF v.id % 4 = 0
    THEN IF v.crossed_intersection THEN 8 ELSE Nominal.move
    ELSE IF v.crossed_intersection THEN Nominal.move ELSE 99

RECURSIVE ConvoyLanes(_, _)
ConvoyLanes(lanes, lane_idx) ==
    IF lane_idx > NUM_LANES - 1 THEN << >>
    ELSE [j \in 1 .. Len(lanes[lane_idx]) |-> ConvoyDraw(lanes[lane_idx][j])]
         \o ConvoyLanes(lanes, lane_idx + 1)

ConvoyDraws == {ConvoyLanes(vehicles[Directions[dirIdx]], 0)}

ConvoyTurners == {2, 3}

\* the draws of line 63 for the vehicle the generator is about to create
ConvoyTurns(S, direction, lane) ==
    IF S.id_counter[direction][lane] \in ConvoyTurners
       /\ S.deviations < MaxDeviations
    THEN Draws.turn ELSE {Nominal.turn}

ConvoyLight == LightPass(ConvoyDraws, FALSE)

ConvoyGenerator ==
    /\ frame < MaxFrames
    /\ Head(queue)[2][1] = "generator"
    /\ \E draws \in ConvoyDraws, d \in {Head(queue)[2][2]}, l \in {Head(queue)[2][3]} :
          \E S \in {AfterMotion(draws, FALSE)} :
             IF WillSpawn(S, d, l)
             THEN \E rTurn \in ConvoyTurns(S, d, l) :
                     \E T \in {GeneratorTimeout(Spawn(S, d, l, Nominal.length, rTurn),
                                                d, l, Nominal.delay)} : Commit(T)
             ELSE \E T \in {GeneratorTimeout(S, d, l, Nominal.delay)} : Commit(T)

ConvoyNext == ConvoyLight \/ ConvoyGenerator

ConvoySpec == Init /\ [][ConvoyNext]_vars

\* a right-turner that has crossed has its position at the lane offset
AtLaneOffset(dl) ==
    \A v \in VehiclesOf(dl) :
       TurnedOff(v) => Abs(v.position) = lane_offset(dl[2])


\* the pass of the lane, seen by a right-turner v that had crossed before
\* it: if v is still in the lane its position is at the lane offset, its
\* lateral coordinate is no nearer the centre, strictly further if the
\* vehicle has moved, and short of the zone boundary; if v has left the
\* lane the completion check did not apply to it and one step takes its
\* lateral coordinate to the boundary
TurnsOff(dl, v) ==
    IF Survives(dl, v)
    THEN LET w == PostLane(dl)[IndexAfter(dl, v)]
         IN  /\ Abs(w.position) = lane_offset(dl[2])
             /\ Abs(w.lateral) >= Abs(v.lateral)
             /\ HasMoved(v, w) => Abs(w.lateral) > Abs(v.lateral)
             /\ Abs(w.lateral) < OBSERVATION_ZONE_LENGTH
    ELSE /\ ~IsCompleted(v)
         /\ Abs(v.lateral) + movement_per_step(99) >= OBSERVATION_ZONE_LENGTH

\* C21.  Right-turn motion mode: in every pass of a direction, a
\* right-turner of that direction that had crossed before the pass keeps
\* its position at the lane offset (0.02 + lane * 0.04 in magnitude), its
\* lateral coordinate moves away from the centre whenever it moves, and it
\* leaves the lane in the pass in which the magnitude of the lateral
\* coordinate reaches OBSERVATION_ZONE_LENGTH, not through the completion
\* check.
C21_RightTurnMode ==
    [][\A l \in Lanes : \A v \in VehiclesOf(<<Directions[dirIdx], l>>) :
          TurnedOff(v) => TurnsOff(<<Directions[dirIdx], l>>, v)]_vars


\* a right-turner has crossed (line 312) behind a vehicle that is within
\* the following distance and the follow gate (lines 318-330) has ended
\* its turn of the loop before line 345: its position is where the
\* crossing left it, not at the lane offset
C21_CrossedNotMoved ==
    \E dl \in AllLanes : \E v \in VehiclesOf(dl) :
       TurnedOff(v) /\ Abs(v.position) # lane_offset(dl[2])


\* the vehicles of the lane whose pending wait ends in this pass: wait_start
\* is set before the pass, and after it the vehicle has left the lane or
\* its wait_start is unset
ClosesWait(dl) ==
    {v \in VehiclesOf(dl) :
        /\ v.wait_start # None
        /\ Survives(dl, v) => PostLane(dl)[IndexAfter(dl, v)].wait_start = None}

ClosedInPass(direction) ==
    UNION {ClosesWait(<<direction, l>>) : l \in Lanes}

\* the entries the pass has appended to the direction's wait_times
AppendedInPass(direction) ==
    Len(stats'[direction].wait_times) - Len(stats[direction].wait_times)

\* a vehicle that the light has held and that has moved again has no wait
\* pending: its wait has ended once and does not start again
NoWaitAfterRelease ==
    \A dl \in AllLanes : \A v \in VehiclesOf(dl) :
       v.resumed_at # None => v.wait_start = None

\* C22.  Each vehicle contributes at most one entry to its direction's
\* wait_times over its lifetime: every pass appends at most one entry for
\* each vehicle whose pending wait ends in it, whether stop_waiting or the
\* completion check makes the append, only the direction being processed
\* gains entries, and a vehicle that has been released has no second wait
\* pending.
C22_OneEntryPerVehicle ==
    /\ [](NoWaitAfterRelease)
    /\ [][\A d \in DirectionSet :
             AppendedInPass(d) <= IF d = Directions[dirIdx]
                                  THEN Cardinality(ClosedInPass(d)) ELSE 0]_vars

\* a vehicle that waited inside the zone with wait_start set has been
\* released in the current second and has moved up to the crossing, where
\* the wait bookkeeping has called stop_waiting and cleared its wait_start
C22_Witness ==
    \E dl \in AllLanes : \E v \in VehiclesOf(dl) :
       /\ ~v.crossed_intersection /\ ~v.turning_right
       /\ v.resumed_at = now
       /\ v.wait_start = None
       /\ Abs(v.position) + movement_per_step(99) < MINIMUM_FOLLOW_DISTANCE


\* the simulation as update_stats() finds it in the next pass: after the
\* motion of the current direction under the draws of that pass
BeforeStats == {MoveDirection(Sim, Directions[dirIdx], draws) : draws \in MoveDraws}

\* update_stats() leaves everything in S but the waiting counts as it is
KeepsAllButWaitingCount(S) ==
    LET T == update_stats(S)
    IN  /\ \A d \in DirectionSet :
              /\ T.stats[d].completed_count = S.stats[d].completed_count
              /\ T.stats[d].wait_times = S.stats[d].wait_times
              /\ T.stats[d].current_waiting = S.stats[d].current_waiting
        /\ T.vehicles = S.vehicles
        /\ T.states = S.states
        /\ T.now = S.now

\* C23.  Stats recomputation frame: a call of update_stats changes only
\* the waiting_count field of each direction's TrafficStats; it leaves
\* completed_count, wait_times, current_waiting, every lane's vehicle
\* sequence, every vehicle's fields, the light state and the simulation
\* clock unchanged.
C23_StatsFrame == \A S \in BeforeStats : KeepsAllButWaitingCount(S)

\* a call of update_stats is about to change a waiting count while some
\* direction has completed vehicles and vehicles are in the lanes
C23_Witness ==
    /\ \E S \in BeforeStats : update_stats(S).stats # S.stats
    /\ \E d \in DirectionSet : stats[d].completed_count > 0


\* no vehicle that has crossed has a wait pending
NoWaitOnceCrossed ==
    \A dl \in AllLanes : \A v \in VehiclesOf(dl) :
       v.crossed_intersection => v.wait_start = None

\* the pass sets wait_start only of vehicles that have not crossed when it
\* ends
SetBeforeCrossing(dl) ==
    \A v \in VehiclesOf(dl) :
       (/\ Survives(dl, v)
        /\ v.wait_start = None
        /\ PostLane(dl)[IndexAfter(dl, v)].wait_start # None)
          => ~PostLane(dl)[IndexAfter(dl, v)].crossed_intersection

\* a pass in which the completion check removes a vehicle appends nothing
\* to wait_times
CompletionAppendsNothing ==
    \A d \in DirectionSet :
       stats'[d].completed_count > stats[d].completed_count
          => stats'[d].wait_times = stats[d].wait_times

\* C24.  In every reachable state a vehicle that has crossed has wait_start
\* unset: wait_start is set only while the vehicle has not crossed and is
\* cleared in the step that sets crossed_intersection, so the completion
\* check finds no pending wait_start and appends nothing to wait_times.
C24_CrossedHasNoWait ==
    /\ [](NoWaitOnceCrossed)
    /\ [][(\A dl \in AllLanes : SetBeforeCrossing(dl))
             /\ CompletionAppendsNothing]_vars

\* the direction whose pass has just ended
JustProcessed == Directions[IF dirIdx = 1 THEN Len(Directions) ELSE dirIdx - 1]

\* in the pass that has just ended, a straight vehicle that the light was
\* holding at the crossing, where its wait_start had been set, has crossed
\* and moved on with wait_start cleared
C24_Witness ==
    \E l \in Lanes : \E v \in VehiclesOf(<<JustProcessed, l>>) :
       /\ v.crossed_intersection /\ ~v.turning_right
       /\ v.held_since # None
       /\ v.resumed_at = now
       /\ v.wait_start = None

=============================================================================
